---- MODULE Spec2Model ----
(***************************************************************************)
(* State-machine model of FU_Hypervisor/fake_page.cpp: the fake page       *)
(* (shadow page) registry, its Create/Enable/Disable/Delete VMCALLs, the   *)
(* EPT-violation handler and the monitor-trap-flag handler.                *)
(*                                                                         *)
(* Memory is scaled down: a page has PageSize bytes, a patch PatchLen      *)
(* bytes, a byte is 0..MaxByte.  Addresses are integers: address =         *)
(* page number * PageSize + offset, for virtual and physical addresses.    *)
(***************************************************************************)
EXTENDS Integers, Sequences, FiniteSets, TLC

\* ---------------------------------------------------------------- bounds
PageSize == 4        \* bytes in a page (PAGE_SIZE, scaled down)
PatchLen == 2        \* bytes in original_bytes (std::array<UCHAR, 32>, scaled down)
MaxByte == 1         \* a byte is 0..MaxByte
MaxEntries == 2      \* FakePageData objects created per behaviour
MaxGuestWrites == 1  \* guest stores per behaviour
NumCores == 2        \* logical processors
MaxStdLeaf == 5      \* highest standard CPUID leaf a host reports
MaxExtLeaves == 1    \* extended CPUID leaves a host reports past 0x80000000

Byte == 0..MaxByte
Cores == 1..NumCores
Offsets == 0..(PageSize - 1)

\* ------------------------------------------------------- the guest's memory
\* Two guest processes (CR3 values).  Process 1 maps virtual pages 1 and 2,
\* process 2 maps virtual page 1; every other virtual page (the null page 0
\* among them) is unmapped.  Virtual page 2 of process 1 and virtual page 1 of
\* process 2 are the same physical page (a shared section).
Cr3s == {1, 2}
\* the CR3 the VMM runs on (the system process): it maps none of the user pages
VmmCr3 == 3
GuestPageTable == [cr3 \in Cr3s |->
                     IF cr3 = 1 THEN [vpn \in {1, 2} |-> vpn]
                                ELSE [vpn \in {1} |-> 2]]
GuestPfns == {1, 2}                    \* physical pages backing guest pages
HeapAddrs == 1..MaxEntries             \* addresses of the FakePageData objects
ShadowPfns == {2 + a : a \in HeapAddrs}  \* pool pages of the Page objects
AllPfns == GuestPfns \cup ShadowPfns
NullPtr == 0

PAGE_ALIGN(va) == va - (va % PageSize)
BYTE_OFFSET(va) == va % PageSize
UtilPfnFromPa(pa) == pa \div PageSize
UtilPaFromPfn(pfn) == pfn * PageSize
IsMapped(cr3, va) ==
  cr3 \in Cr3s /\ (va \div PageSize) \in DOMAIN GuestPageTable[cr3]
\* MmGetPhysicalAddress under the given CR3 (0 when the address is not mapped)
UtilPaFromVa(cr3, va) ==
  IF IsMapped(cr3, va)
    THEN UtilPaFromPfn(GuestPageTable[cr3][va \div PageSize]) + BYTE_OFFSET(va)
    ELSE 0
MappedVas(cr3) == {vpn * PageSize + off : vpn \in DOMAIN GuestPageTable[cr3], off \in Offsets}

ZeroPage == [o \in Offsets |-> 0]
ZeroBytes == [i \in 1..PatchLen |-> 0]
\* a patch whose first byte is MaxByte (the scenario's 0xCC)
MarkBytes == [i \in 1..PatchLen |-> IF i = 1 THEN MaxByte ELSE 0]

\* ---------------------------------------------------------------- state
VARIABLES
  heap,          \* heap[a]: the FakePageData object at address a (stale after free)
  all_fp_data,   \* SharedFakePageData::all_fp_data: sequence of object addresses
  mem,           \* physical memory: mem[pfn][offset]
  ept,           \* EPT PT entry of each guest physical page
  last_fp_data,  \* ProcessorFakePageData::last_fp_data of each core (0 = nullptr)
  mtf,           \* monitor_trap_flag of each core's VMCS
  halted,        \* "no", or why the machine stopped (bug check, failed assertion, fault)
  shadowing,     \* history: objects Enable has shadowed and Disable has not
  patched_bytes, \* history: the live bytes at patch_address when the object was created
  writes,        \* history: guest stores so far
  host,          \* the processor: its highest standard and extended CPUID leaves
  cpuinfo,       \* SharedFakePageData::cpuinfo: sequence of Cpuinfo records
  cpuid_found,   \* the registers the last FpHandleCpuid returned (<<>> = NULL)
  insn           \* the guest instruction followed: "none", the data access it makes
                 \* while it has not completed ("read", "write"), or "retired"

vars == <<heap, all_fp_data, mem, ept, last_fp_data, mtf, halted,
          shadowing, patched_bytes, writes, host, cpuinfo, cpuid_found, insn>>

NoData == [patch_address |-> 0, target_cr3 |-> 0, shadow_page_base_for_exec |-> 0,
           pa_base_for_rw |-> 0, pa_base_for_exec |-> 0,
           original_bytes |-> ZeroBytes]

DirectEntry(pfn) == [read_access |-> TRUE, write_access |-> TRUE,
                     execute_access |-> TRUE, physial_address |-> pfn]

\* The machine state as one record, so that handlers are functions of it.
\* uninvalidated is local to one handler invocation: the guest pages whose EPT
\* entry the handler has written with no global INVEPT after the write.
\* cr3 and cr0_wp are the registers of the core the handler runs on: a handler
\* is entered in VMX root mode on the VMM's CR3 with write protection on.
St == [heap |-> heap, all_fp_data |-> all_fp_data, mem |-> mem, ept |-> ept,
       uninvalidated |-> {}, cr3 |-> VmmCr3, cr0_wp |-> TRUE,
       last_fp_data |-> last_fp_data, mtf |-> mtf, halted |-> halted,
       shadowing |-> shadowing, patched_bytes |-> patched_bytes]

InitSt == [heap |-> [a \in HeapAddrs |-> NoData],
           all_fp_data |-> <<>>,
           mem |-> [p \in AllPfns |-> ZeroPage],
           ept |-> [p \in GuestPfns |-> DirectEntry(p)],
           uninvalidated |-> {}, cr3 |-> VmmCr3, cr0_wp |-> TRUE,
           last_fp_data |-> [c \in Cores |-> NullPtr],
           mtf |-> [c \in Cores |-> FALSE],
           halted |-> "no",
           shadowing |-> {},
           patched_bytes |-> [a \in HeapAddrs |-> ZeroBytes]]

\* A bug check, a failed assertion or a fault in VMX root mode stops the machine.
Halt(reason) == [InitSt EXCEPT !.halted = reason]

InstallState(s) ==
  /\ heap' = s.heap
  /\ all_fp_data' = s.all_fp_data
  /\ mem' = s.mem
  /\ ept' = s.ept
  /\ last_fp_data' = s.last_fp_data
  /\ mtf' = s.mtf
  /\ halted' = s.halted
  /\ shadowing' = s.shadowing
  /\ patched_bytes' = s.patched_bytes
  /\ UNCHANGED <<host, cpuinfo, cpuid_found>>

Install(s) == InstallState(s) /\ UNCHANGED insn

\* __writecr3 and __writecr0 (the WP bit)
WriteCr3(s, value) == [s EXCEPT !.cr3 = value]
WriteCr0Wp(s, wp) == [s EXCEPT !.cr0_wp = wp]

\* ------------------------------------------------------------- registry
Range(f) == {f[i] : i \in DOMAIN f}
Live(s) == Range(s.all_fp_data)
Allocated(s) == {a \in HeapAddrs : s.heap[a] # NoData}
Min(S) == CHOOSE x \in S : \A y \in S : x <= y
\* make_unique<FakePageData>: objects get addresses 1, 2, ... and no address is
\* used twice within a behaviour
NewFakePageData(s) == Cardinality(Allocated(s)) + 1
\* make_shared<Page> for the object at address a
NewPage(a) == 2 + a

\* The byte the VMM reads at a guest virtual address with CR3 = cr3 loaded
ReadVa(m, cr3, va) == m[UtilPfnFromPa(UtilPaFromVa(cr3, va))][BYTE_OFFSET(va)]

\* std::find_if: the address of the first object satisfying P, or nullptr
FindFirst(s, P(_)) ==
  LET hits == {i \in DOMAIN s.all_fp_data : P(s.heap[s.all_fp_data[i]])}
  IN IF hits = {} THEN NullPtr ELSE s.all_fp_data[Min(hits)]

\* mutant: the virtual lookup with the process left out of the match
FppFindFakePageDataByPage_AnyProcess(s, guest_cr3, address) ==
  LET Match(fp) == PAGE_ALIGN(fp.patch_address) = PAGE_ALIGN(address)
  IN FindFirst(s, Match)

FppFindFakePageDataByPage(s, guest_cr3, address) ==
  LET Match(fp) == /\ PAGE_ALIGN(fp.patch_address) = PAGE_ALIGN(address)
                   /\ fp.target_cr3 = guest_cr3
  IN FindFirst(s, Match)

\* mutant: the physical lookup matching every object
FppFindFakePageDataByPPage_AnyPage(s, paddress) ==
  LET Match(fp) == fp.pa_base_for_rw >= 0
  IN FindFirst(s, Match)

FppFindFakePageDataByPPage(s, paddress) ==
  LET Match(fp) == (fp.pa_base_for_rw \div PageSize) = (paddress \div PageSize)
  IN FindFirst(s, Match)

\* The object FppCreateFakePageData returns, and memory after it: a new Page
\* receives a copy of the live page, a reused one is left as it is.
FppCreateFakePageData(s, guest_cr3, start_address, original_bytes) ==
  LET vmm_cr3 == s.cr3
      params == WriteCr3(s, guest_cr3)
      page_base == PAGE_ALIGN(start_address)
      pa_base == UtilPaFromVa(params.cr3, page_base)
      got == WriteCr3(params, vmm_cr3)
      reusable == FppFindFakePageDataByPage(s, guest_cr3, start_address)
      shadow == IF reusable # NullPtr
                  THEN s.heap[reusable].shadow_page_base_for_exec
                  ELSE NewPage(NewFakePageData(s))
      fp == [patch_address |-> start_address,
             target_cr3 |-> guest_cr3,
             shadow_page_base_for_exec |-> shadow,
             pa_base_for_rw |-> pa_base,
             pa_base_for_exec |-> UtilPaFromPfn(shadow),
             original_bytes |-> original_bytes]
      newmem == IF reusable # NullPtr THEN s.mem
                ELSE [s.mem EXCEPT ![shadow] = s.mem[UtilPfnFromPa(pa_base)]]
      copied == IF reusable # NullPtr THEN got
                ELSE WriteCr3(WriteCr3(got, fp.target_cr3), vmm_cr3)
  IN [fp |-> fp, mem |-> newmem, allocated |-> (reusable = NullPtr),
      cr3 |-> copied.cr3]

\* The states FpVmCallCreateFakePage can leave: the entry pushed back, or a bug
\* check when the pool has no page for a new Page object.
FpVmCallCreateFakePage(s, guest_cr3, start_address, original_bytes) ==
  LET r == FppCreateFakePageData(s, guest_cr3, start_address, original_bytes)
      a == NewFakePageData(s)
      seen == [i \in 1..PatchLen |->
                 IF IsMapped(guest_cr3, start_address + i - 1)
                   THEN ReadVa(s.mem, guest_cr3, start_address + i - 1) ELSE 0]
  IN {[s EXCEPT !.heap[a] = r.fp,
                !.mem = r.mem,
                !.cr3 = r.cr3,
                !.all_fp_data = Append(s.all_fp_data, a),
                !.patched_bytes[a] = seen]}
     \cup (IF r.allocated THEN {Halt("bugcheck")} ELSE {})

\* std::remove_if + erase: the objects of the requester are destroyed, the rest
\* keep their order.  The freed objects' bytes stay in the heap.
\* mutant: the registry cleared, whoever asks
FpVmCallDeleteFakePages_All(s, requester_cr3) ==
  [s EXCEPT !.all_fp_data = <<>>, !.shadowing = {}]

FpVmCallDeleteFakePages(s, requester_cr3) ==
  LET Keep(a) == s.heap[a].target_cr3 # requester_cr3
  IN [s EXCEPT !.all_fp_data = SelectSeq(s.all_fp_data, Keep),
               !.shadowing = {a \in s.shadowing : Keep(a)}]

\* ------------------------------------------------------ copying bytes
\* RtlCopyMemory to a guest virtual address with CR3 = cr3 loaded and CR0.WP
\* clear: byte i of bytes goes to va + i - 1.  ok is FALSE when a byte falls on
\* an unmapped page (a page fault in VMX root mode).
RECURSIVE CopyToVa(_, _, _, _, _)
CopyToVa(m, cr3, va, bytes, i) ==
  IF i > Len(bytes) THEN [ok |-> TRUE, mem |-> m]
  ELSE LET dst == va + i - 1
       IN IF ~IsMapped(cr3, dst) THEN [ok |-> FALSE, mem |-> m]
          ELSE CopyToVa([m EXCEPT ![UtilPfnFromPa(UtilPaFromVa(cr3, dst))][BYTE_OFFSET(dst)] = bytes[i]],
                        cr3, va, bytes, i + 1)

\* ------------------------------------------------- permission controller
EptGetEptPtEntry(pa) == UtilPfnFromPa(pa)

\* A write to the EPT entry e: translations cached from it are out of date
\* until a global invalidation.
WriteEptEntry(s, e, entry) ==
  [s EXCEPT !.ept[e] = entry, !.uninvalidated = @ \cup {e}]

UtilInveptGlobal(s) == [s EXCEPT !.uninvalidated = {}]

\* mutant: returns on the target's CR3
FppEnableFakePageForExec_NoRestore(s, fp) ==
  LET loaded == WriteCr3(s, fp.target_cr3)
      e == EptGetEptPtEntry(UtilPaFromVa(loaded.cr3, fp.patch_address))
  IN UtilInveptGlobal(
       WriteEptEntry(loaded, e, [s.ept[e] EXCEPT
                                   !.write_access = FALSE,
                                   !.read_access = FALSE,
                                   !.physial_address = UtilPfnFromPa(fp.pa_base_for_exec)]))

FppEnableFakePageForExec(s, fp) ==
  LET old_cr3 == s.cr3
      loaded == WriteCr3(s, fp.target_cr3)
      e == EptGetEptPtEntry(UtilPaFromVa(loaded.cr3, fp.patch_address))
      written == WriteEptEntry(loaded, e,
                   [s.ept[e] EXCEPT
                      !.write_access = FALSE,
                      !.read_access = FALSE,
                      !.physial_address = UtilPfnFromPa(fp.pa_base_for_exec)])
  IN UtilInveptGlobal(WriteCr3(written, old_cr3))

FppDisableFakePage(s, fp) ==
  LET old_cr3 == s.cr3
      loaded == WriteCr3(s, fp.target_cr3)
      page_base == PAGE_ALIGN(fp.patch_address)
      pa_base == UtilPaFromVa(loaded.cr3, page_base)
      e == EptGetEptPtEntry(pa_base)
      written == WriteEptEntry(loaded, e,
                   [s.ept[e] EXCEPT
                      !.write_access = TRUE,
                      !.read_access = TRUE,
                      !.physial_address = UtilPfnFromPa(pa_base)])
  IN UtilInveptGlobal(WriteCr3(written, old_cr3))

\* ------------------------------------------------------ Enable / Disable
\* The loop of FpVmCallEnableFakePages from its i-th entry on, vmm_cr3 being
\* the CR3 read at the function's entry
RECURSIVE EnableFrom(_, _, _, _)
EnableFrom(s, requester_cr3, vmm_cr3, i) ==
  IF i > Len(s.all_fp_data) THEN s
  ELSE LET a == s.all_fp_data[i]
           fp == s.heap[a]
           loaded == WriteCr3(s, fp.target_cr3)
           w == CopyToVa(loaded.mem, loaded.cr3, fp.patch_address, fp.original_bytes, 1)
           copied == WriteCr3([loaded EXCEPT !.mem = w.mem, !.shadowing = @ \cup {a}],
                              vmm_cr3)
       IN IF fp.target_cr3 # requester_cr3
            THEN EnableFrom(s, requester_cr3, vmm_cr3, i + 1)
          ELSE IF ~w.ok THEN Halt("fault")
          ELSE EnableFrom(FppEnableFakePageForExec(copied, fp),
                          requester_cr3, vmm_cr3, i + 1)

\* A fault does not return: the registers are restored on the paths that do.
FpVmCallEnableFakePages(s, requester_cr3) ==
  LET cr0_old == s.cr0_wp
      t == EnableFrom(WriteCr0Wp(s, FALSE), requester_cr3, s.cr3, 1)
  IN IF t.halted # "no" THEN t ELSE WriteCr0Wp(t, cr0_old)

\* mutant: the bytes at the start of the shadow page, BYTE_OFFSET forgotten
ShadowPatchBytes_NoOffset(s, fp) ==
  {[i \in 1..PatchLen |-> s.mem[fp.shadow_page_base_for_exec][i - 1]]}

\* The PatchLen bytes Disable reads at shadow page + BYTE_OFFSET(patch_address).
\* Bytes past the end of the Page object are whatever the pool holds there.
ShadowPatchBytes(s, fp) ==
  LET off == BYTE_OFFSET(fp.patch_address)
      inside == {i \in 1..PatchLen : off + i - 1 < PageSize}
  IN {b \in [1..PatchLen -> Byte] :
        \A i \in inside : b[i] = s.mem[fp.shadow_page_base_for_exec][off + i - 1]}

\* One iteration of the loop of FpVmCallDisableFakePages
DisableOne(s, vmm_cr3, a) ==
  LET fp == s.heap[a]
      s1 == [FppDisableFakePage(s, fp) EXCEPT !.shadowing = @ \ {a}]
      loaded == WriteCr3(s1, fp.target_cr3)
      overread == BYTE_OFFSET(fp.patch_address) + PatchLen > PageSize
      Written(b) == LET w == CopyToVa(loaded.mem, loaded.cr3, fp.patch_address, b, 1)
                    IN IF w.ok THEN WriteCr3([loaded EXCEPT !.mem = w.mem], vmm_cr3)
                       ELSE Halt("fault")
  IN {Written(b) : b \in ShadowPatchBytes(s, fp)}
     \cup (IF overread THEN {Halt("fault")} ELSE {})

RECURSIVE DisableFrom(_, _, _, _)
DisableFrom(s, requester_cr3, vmm_cr3, i) ==
  IF i > Len(s.all_fp_data) THEN {s}
  ELSE LET a == s.all_fp_data[i]
       IN IF s.heap[a].target_cr3 # requester_cr3
            THEN DisableFrom(s, requester_cr3, vmm_cr3, i + 1)
          ELSE UNION {DisableFrom(t, requester_cr3, vmm_cr3, i + 1) :
                        t \in DisableOne(s, vmm_cr3, a)}

FpVmCallDisableFakePages(s, requester_cr3) ==
  LET cr0_old == s.cr0_wp
  IN {IF t.halted # "no" THEN t ELSE WriteCr0Wp(t, cr0_old) :
        t \in DisableFrom(WriteCr0Wp(s, FALSE), requester_cr3, s.cr3, 1)}

\* ------------------------------------------------------- per-core state
\* mutant: the VMCS control left as it was
FppSetMonitorTrapFlag_NotWritten(s, core, enable) == s

FppSetMonitorTrapFlag(s, core, enable) == [s EXCEPT !.mtf[core] = enable]

\* NT_ASSERT(!last_fp_data) stops a checked build; a free build overwrites.
FppSaveLastFakePageData(s, core, a) ==
  {[s EXCEPT !.last_fp_data[core] = a]}
  \cup (IF s.last_fp_data[core] # NullPtr THEN {Halt("assert")} ELSE {})

FppRestoreLastFakePageData(s, core) == [s EXCEPT !.last_fp_data[core] = NullPtr]

\* --------------------------------------------------- violation dispatcher
\* Exit qualifications of an EPT violation on the page of fault_pa: the
\* attempted accesses, the permissions the entry had, and bit 8.  At least one
\* attempted access is one the entry denies.
ExitQualifications(s, fault_pa) ==
  LET e == s.ept[UtilPfnFromPa(fault_pa)]
  IN {q \in [read_access : BOOLEAN, write_access : BOOLEAN, execute_access : BOOLEAN,
             ept_readable : {e.read_access}, ept_writeable : {e.write_access},
             ept_executable : {e.execute_access}, caused_by_translation : BOOLEAN] :
        \/ q.read_access /\ ~q.ept_readable
        \/ q.write_access /\ ~q.ept_writeable
        \/ q.execute_access /\ ~q.ept_executable}

\* Lines 242-252: the live page's bytes outside the patch, read through the
\* CR3 that is loaded, go to the shadow page.
\* ok is FALSE when the second length is negative (a copy of 2^64 - n bytes).
ResyncShadowPage(s, fp) ==
  LET len1 == fp.patch_address - PAGE_ALIGN(fp.patch_address)
      len2 == PageSize - len1 - PatchLen
      sh == fp.shadow_page_base_for_exec
      first == [o \in Offsets |->
                  IF o < len1 THEN ReadVa(s.mem, s.cr3, PAGE_ALIGN(fp.patch_address) + o)
                  ELSE s.mem[sh][o]]
      second == [o \in Offsets |->
                  IF o >= PageSize - len2
                    THEN ReadVa(s.mem, s.cr3,
                                fp.patch_address + PatchLen + (o - (PageSize - len2)))
                    ELSE first[o]]
  IN IF len2 < 0 THEN [ok |-> FALSE, mem |-> s.mem]
     ELSE [ok |-> TRUE, mem |-> [s.mem EXCEPT ![sh] = second]]

\* mutant: read and write as the union of the entry's bits and the attempted ones
GrantedAccess_Union(e, q) ==
  [e EXCEPT !.write_access = e.write_access \/ q.write_access,
            !.read_access = e.read_access \/ q.read_access,
            !.execute_access = q.execute_access]

\* Lines 232-236: the permissions written from the attempted accesses
GrantedAccess(e, q) ==
  [e EXCEPT !.write_access = q.write_access,
            !.read_access = q.read_access \/ q.write_access,
            !.execute_access = q.execute_access]

\* mutant: only a denied write selects the original page
ShowsOriginalPage_WriteOnly(q) == q.write_access /\ ~q.ept_writeable

\* Lines 226-229 and 237: a denied read or a denied write selects the original page
ShowsOriginalPage(q) ==
  LET read_failure == q.read_access /\ ~q.ept_readable
      write_failure == q.write_access /\ ~q.ept_writeable
  IN write_failure \/ read_failure

\* Lines 219-224: the branch taken when bit 8 of the qualification is clear
ResetOnTranslation(e, fp) ==
  [e EXCEPT !.physial_address = UtilPfnFromPa(fp.pa_base_for_rw),
            !.execute_access = FALSE]

FpHandleEptViolation(s, core, fault_pa, q) ==
  LET a == FppFindFakePageDataByPPage(s, fault_pa)
      fp == s.heap[a]
      e == EptGetEptPtEntry(fp.pa_base_for_rw)
      granted == GrantedAccess(s.ept[e], q)
      vmmcr3 == s.cr3
      loaded == WriteCr3(s, fp.target_cr3)
      sync == ResyncShadowPage(loaded, fp)
      s1 == IF ShowsOriginalPage(q)
              THEN WriteEptEntry(s, e, [granted EXCEPT !.physial_address =
                                          UtilPfnFromPa(fp.pa_base_for_rw)])
              ELSE WriteEptEntry(WriteCr3([loaded EXCEPT !.mem = sync.mem], vmmcr3), e,
                                 [granted EXCEPT !.physial_address =
                                    UtilPfnFromPa(fp.pa_base_for_exec)])
  IN IF a = NullPtr THEN {s}
     ELSE IF ~q.caused_by_translation
       THEN {WriteEptEntry(s, e, ResetOnTranslation(s.ept[e], fp))}
     ELSE IF ~ShowsOriginalPage(q) /\ ~sync.ok THEN {Halt("fault")}
     ELSE IF s1.ept[e].read_access /\ s1.ept[e].execute_access
       THEN FppSaveLastFakePageData(FppSetMonitorTrapFlag(s1, core, TRUE), core, a)
     ELSE {s1}

\* Lines 208-210: the handler as the VM-exit dispatcher calls it, with the
\* pointer to the shared data (nullptr while the engine is not initialised).
SharedDataPtrs == {NullPtr, NullPtr + 1}
FppIsFuActive(shared_fp_data) == shared_fp_data # NullPtr
FpHandleEptViolationOn(shared_fp_data, s, core, fault_pa, q) ==
  IF ~FppIsFuActive(shared_fp_data) THEN {s}
  ELSE FpHandleEptViolation(s, core, fault_pa, q)

\* ------------------------------------------------------ single-step handler
\* last_fp_data may point to a destroyed object (use after free): the handler
\* then faults or works on the bytes the heap still holds there.  The read of
\* *fault_va (fault_va is never set: address 0) faults unless the build drops it.
FpHandleMonitorTrapFlag(s, core) ==
  LET a == s.last_fp_data[core]
      s1 == FppRestoreLastFakePageData(s, core)
      fp == s.heap[a]
      vmm_cr3 == s1.cr3
      loaded == WriteCr3(s1, fp.target_cr3)
      read == WriteCr3(loaded, vmm_cr3)
  IN IF a = NullPtr THEN {Halt("fault")}
     ELSE {FppSetMonitorTrapFlag(FppEnableFakePageForExec(read, fp), core, FALSE)}
          \cup (IF a \notin Live(s) \/ ~IsMapped(loaded.cr3, 0)
                  THEN {Halt("fault")} ELSE {})

\* ------------------------------------------------------------ CPUID cache
\* Leaf numbers are the ints the code holds them in: 0x80000000 is INT_MIN.
ExtendedBase == (-2147483647) - 1
TopologyLeaf == 4
\* __cpuidex on the processor h: EAX of leaf 0 and of leaf 0x80000000 is the
\* highest leaf; the other registers tell the leaf and sub-leaf apart
Cpuid(h, leaf, sub) ==
  <<IF leaf = 0 THEN h.max_std ELSE IF leaf = ExtendedBase THEN h.max_ext ELSE leaf,
    leaf, sub, 0>>
\* std::make_unique<Cpuinfo>() value-initialises: index and ecx start as 0
NewCpuinfo == [index |-> 0, ecx |-> 0, cpui |-> <<0, 0, 0, 0>>]

\* The loops at lines 552 and 562 read their bound through cpu0 and cpu80
\* after std::move has emptied them (a null unique_ptr): the read faults, or
\* yields some int.  std_bound and ext_bound are the values it yields.
SaveCpuinfoWith(h, std_bound, ext_bound) ==
  LET cpu0 == [NewCpuinfo EXCEPT !.index = 0, !.ecx = 0, !.cpui = Cpuid(h, 0, 0)]
      std == [i \in 1..std_bound |->
                [NewCpuinfo EXCEPT !.index = i, !.ecx = 0, !.cpui = Cpuid(h, i, 0)]]
      cpu80 == [NewCpuinfo EXCEPT !.cpui = Cpuid(h, ExtendedBase, 0)]
      next == [k \in 1..(ext_bound - ExtendedBase) |->
                 [NewCpuinfo EXCEPT !.index = ExtendedBase + k, !.ecx = 0,
                                    !.cpui = Cpuid(h, ExtendedBase + k, 0)]]
      cpu4 == [i \in 1..3 |->
                 [NewCpuinfo EXCEPT !.index = TopologyLeaf, !.ecx = i,
                                    !.cpui = Cpuid(h, TopologyLeaf, i)]]
  IN <<cpu0>> \o std \o <<cpu80>> \o next \o cpu4

StdBounds == 0..MaxStdLeaf
ExtBounds == {ExtendedBase + k : k \in 0..MaxExtLeaves}
\* The tables SaveCpuinfo can leave when the reads of the bounds do not fault
SaveCpuinfo(h) ==
  {SaveCpuinfoWith(h, b1, b2) : b1 \in StdBounds, b2 \in ExtBounds}

\* the NULL an int* lookup returns
NoCpui == <<>>
\* FpfindCpuid: the cpui of the first matching record, or NULL
FpfindCpuid(table, index, subfun) ==
  LET Match(c) == IF index = TopologyLeaf
                    THEN c.index = TopologyLeaf /\ c.ecx = subfun
                    ELSE c.index = index
      hits == {i \in DOMAIN table : Match(table[i])}
  IN IF hits = {} THEN NoCpui ELSE table[Min(hits)].cpui

FpHandleCpuid(table, index, subfun) == FpfindCpuid(table, index, subfun)

\* ------------------------------------------------------------- the guest
\* A guest store of byte b at virtual address va of process cr3: it goes to the
\* page the EPT entry maps, when the entry grants write.
GuestStore(s, cr3, va, b) ==
  LET e == s.ept[UtilPfnFromPa(UtilPaFromVa(cr3, va))]
  IN [s EXCEPT !.mem[e.physial_address][BYTE_OFFSET(va)] = b]

GuestMayWrite(s, cr3, va) == s.ept[UtilPfnFromPa(UtilPaFromVa(cr3, va))].write_access

\* ------------------------------------------------------------- actions
Running == halted = "no"

Create(cr3, va, ob) ==
  /\ Running
  /\ NewFakePageData(St) <= MaxEntries
  /\ \E t \in FpVmCallCreateFakePage(St, cr3, va, ob) : Install(t)
  /\ UNCHANGED writes

Enable(cr3) ==
  /\ Running
  /\ Install(FpVmCallEnableFakePages(St, cr3))
  /\ UNCHANGED writes

Disable(cr3) ==
  /\ Running
  /\ \E t \in FpVmCallDisableFakePages(St, cr3) : Install(t)
  /\ UNCHANGED writes

Delete(cr3) ==
  /\ Running
  /\ Install(FpVmCallDeleteFakePages(St, cr3))
  /\ UNCHANGED writes

EptViolation(core, fault_pa, q) ==
  /\ Running
  /\ \E t \in FpHandleEptViolation(St, core, fault_pa, q) : Install(t)
  /\ UNCHANGED writes

MonitorTrapFlag(core) ==
  /\ Running
  /\ mtf[core]
  /\ \E t \in FpHandleMonitorTrapFlag(St, core) : Install(t)
  /\ UNCHANGED writes

GuestWrite(cr3, va, b) ==
  /\ Running
  /\ writes < MaxGuestWrites
  /\ GuestMayWrite(St, cr3, va)
  /\ Install(GuestStore(St, cr3, va, b))
  /\ writes' = writes + 1

Init ==
  /\ heap = InitSt.heap
  /\ all_fp_data = InitSt.all_fp_data
  /\ mem = InitSt.mem
  /\ ept = InitSt.ept
  /\ last_fp_data = InitSt.last_fp_data
  /\ mtf = InitSt.mtf
  /\ halted = InitSt.halted
  /\ shadowing = InitSt.shadowing
  /\ patched_bytes = InitSt.patched_bytes
  /\ writes = 0
  /\ host = [max_std |-> MaxStdLeaf, max_ext |-> ExtendedBase]
  /\ cpuinfo = <<>>
  /\ cpuid_found = NoCpui
  /\ insn = "none"

\* The last byte of each guest physical page: the faulting physical addresses
FaultPas == {UtilPaFromPfn(p) + PageSize - 1 : p \in GuestPfns}

\* The steps of the machine, with Create called on the patch addresses in
\* sites (pairs <<cr3, va>>) with original bytes in obs, the handlers run on the
\* cores in cores, and guest stores to the addresses in stores (pairs <<cr3, va>>).
NextOver(sites, obs, cores, stores) ==
  \/ \E site \in sites : \E ob \in obs : Create(site[1], site[2], ob)
  \/ \E cr3 \in Cr3s : Enable(cr3)
  \/ \E cr3 \in Cr3s : Disable(cr3)
  \/ \E cr3 \in Cr3s : Delete(cr3)
  \/ \E core \in cores : \E fault_pa \in FaultPas :
       \E q \in ExitQualifications(St, fault_pa) : EptViolation(core, fault_pa, q)
  \/ \E core \in cores : MonitorTrapFlag(core)
  \/ \E st \in stores : \E b \in Byte : GuestWrite(st[1], st[2], b)

\* Patch addresses: process 1 page 1 at offset 0, at offset PatchLen (a second
\* patch of the same page) and at its last byte (a patch that runs into the
\* next page); the shared page through process 1 and through process 2.
PatchSites == {<<1, PageSize>>, <<1, PageSize + PatchLen>>, <<1, 2 * PageSize - 1>>,
               <<1, 2 * PageSize>>, <<2, PageSize>>}
\* Guest stores go to the first byte of page 1 of process 1.
StoreSites == {<<1, PageSize>>}

Next == NextOver(PatchSites, {MarkBytes}, {1}, StoreSites)

Spec == Init /\ [][Next]_vars

\* ------------------------------------------------- the CPUID cache alone
\* The processors: highest standard leaf below, at or above the topology leaf,
\* highest extended leaf 0x80000000 + 0..MaxExtLeaves.
Hosts == [max_std : (TopologyLeaf - 1)..MaxStdLeaf,
          max_ext : {ExtendedBase + k : k \in 0..MaxExtLeaves}]
\* The leaves FpHandleCpuid is asked for, and the sub-leaves
LookupLeaves == (0..(MaxStdLeaf + 1))
                  \cup {ExtendedBase + k : k \in 0..(MaxExtLeaves + 1)}
LookupSubLeaves == 0..TopologyLeaf

CpuidInit ==
  /\ Running
  /\ cpuinfo = <<>>
  /\ \/ cpuinfo' \in SaveCpuinfo(host) /\ UNCHANGED halted
     \/ halted' = "fault" /\ UNCHANGED cpuinfo
  /\ UNCHANGED <<heap, all_fp_data, mem, ept, last_fp_data, mtf, shadowing,
                 patched_bytes, writes, host, cpuid_found, insn>>

CpuidLookup(leaf, subfun) ==
  /\ Running
  /\ cpuid_found' = FpHandleCpuid(cpuinfo, leaf, subfun)
  /\ UNCHANGED <<heap, all_fp_data, mem, ept, last_fp_data, mtf, halted, shadowing,
                 patched_bytes, writes, host, cpuinfo, insn>>

InitCpuid ==
  /\ heap = InitSt.heap
  /\ all_fp_data = InitSt.all_fp_data
  /\ mem = InitSt.mem
  /\ ept = InitSt.ept
  /\ last_fp_data = InitSt.last_fp_data
  /\ mtf = InitSt.mtf
  /\ halted = InitSt.halted
  /\ shadowing = InitSt.shadowing
  /\ patched_bytes = InitSt.patched_bytes
  /\ writes = 0
  /\ host \in Hosts
  /\ cpuinfo = <<>>
  /\ cpuid_found = NoCpui
  /\ insn = "none"

NextCpuid ==
  \/ CpuidInit
  \/ \E leaf \in LookupLeaves : \E subfun \in LookupSubLeaves : CpuidLookup(leaf, subfun)

SpecCpuid == InitCpuid /\ [][NextCpuid]_vars

\* ------------------------------------------------------ claims' vocabulary
PageOf(fp) == UtilPfnFromPa(fp.pa_base_for_rw)
ShadowOf(fp) == UtilPfnFromPa(fp.pa_base_for_exec)
IsExecuteOnly(e) ==
  ~e.read_access /\ ~e.write_access /\ e.execute_access /\ e.physial_address \in ShadowPfns
\* what a guest data read of physical page p at offset o returns
GuestLoad(s, p, o) ==
  IF s.ept[p].read_access THEN s.mem[s.ept[p].physial_address][o] ELSE -1

\* the registered objects whose original page is physical page p
EntriesOn(s, p) == {a \in Live(s) : PageOf(s.heap[a]) = p}

\* C1: whenever the translation entry of a registered page is backed by the
\* shadow page of one of its entries, read and write are both denied on it.
C1_ShadowNeverReadable ==
  \A p \in GuestPfns : \A a \in EntriesOn(St, p) :
    ept[p].physial_address = ShadowOf(heap[a])
      => ~ept[p].read_access /\ ~ept[p].write_access

\* C3: whenever the page of a shadowed entry has read and execute granted
\* together, some core has its monitor trap flag set and holds a pending entry
\* of that page.  Stated for the pages that only one process has patched, and
\* with any entry of the page accepted as the pending one.
C3_ReadExecuteOnlyWhenArmed ==
  \A p \in GuestPfns :
    (/\ EntriesOn(St, p) \cap shadowing # {}
     /\ \A a, b \in Allocated(St) :
          PageOf(heap[a]) = p /\ PageOf(heap[b]) = p
            => heap[a].target_cr3 = heap[b].target_cr3
     /\ ept[p].read_access /\ ept[p].execute_access)
    => \E c \in Cores : /\ mtf[c]
                        /\ last_fp_data[c] \in EntriesOn(St, p)

\* C4: a fault on a registered page whose qualification has bit 8 clear leaves
\* the page backed by the original page with read and write granted and execute
\* denied, whatever it was before, and arms no single-step.
C4_TranslationResetsToDirect ==
  \A core \in Cores : \A fault_pa \in FaultPas : \A q \in ExitQualifications(St, fault_pa) :
    LET a == FppFindFakePageDataByPPage(St, fault_pa)
        p == UtilPfnFromPa(fault_pa)
    IN (halted = "no" /\ a # NullPtr /\ ~q.caused_by_translation)
       => \A t \in FpHandleEptViolation(St, core, fault_pa, q) :
            /\ t.ept[p] = [read_access |-> TRUE, write_access |-> TRUE,
                           execute_access |-> FALSE, physial_address |-> p]
            /\ t.mtf = mtf
            /\ t.last_fp_data = last_fp_data

\* C2: a permission fault reporting a denied read on a registered page that is
\* in ExecuteOnly leaves the page backed by the original page with read granted,
\* so a retried guest read returns the bytes of the original page.
C2_DeniedReadShowsOriginal ==
  \A core \in Cores : \A fault_pa \in FaultPas : \A q \in ExitQualifications(St, fault_pa) :
    LET a == FppFindFakePageDataByPPage(St, fault_pa)
        p == UtilPfnFromPa(fault_pa)
    IN (/\ halted = "no"
        /\ a # NullPtr
        /\ q.caused_by_translation
        /\ q.read_access /\ ~q.ept_readable
        /\ IsExecuteOnly(ept[p]))
       => \A t \in FpHandleEptViolation(St, core, fault_pa, q) :
            t.halted = "no" =>
              /\ t.ept[p].physial_address = p
              /\ t.ept[p].read_access
              /\ \A o \in Offsets : GuestLoad(t, p, o) = t.mem[p][o]

\* C2 witness: a shadowed entry's page that a denied read has switched to the
\* original page: read granted, execute revoked, while the shadow page differs
\* from the original at the patch.
C2_Witness ==
  \E a \in Live(St) \cap shadowing :
    LET fp == heap[a]
        p == PageOf(fp)
    IN /\ halted = "no"
       /\ ept[p].read_access /\ ~ept[p].write_access /\ ~ept[p].execute_access
       /\ ept[p].physial_address = p
       /\ mem[ShadowOf(fp)] # mem[p]

\* ------------------------------------------------------------------ C5
OwnedBy(s, cr3) == {a \in Live(s) : s.heap[a].target_cr3 = cr3}
PatchInPage(fp) == BYTE_OFFSET(fp.patch_address) + PatchLen <= PageSize
PatchOffsets(fp) ==
  {o \in Offsets : o >= BYTE_OFFSET(fp.patch_address)
                   /\ o < BYTE_OFFSET(fp.patch_address) + PatchLen}
\* the states Enable(cr3) followed at once by Disable(cr3) can leave
RoundTrip(s, cr3) == FpVmCallDisableFakePages(FpVmCallEnableFakePages(s, cr3), cr3)
LiveMemory(s) == [p \in GuestPfns |-> s.mem[p]]
\* the shadow page holds, at every patch of cr3, what the live page holds there
ShadowAgrees(s, cr3) ==
  \A a \in OwnedBy(s, cr3) :
    /\ PatchInPage(s.heap[a])
    /\ \A o \in PatchOffsets(s.heap[a]) :
         s.mem[ShadowOf(s.heap[a])][o] = s.mem[PageOf(s.heap[a])][o]

\* C5 as claimed: Enable(A) then Disable(A) leaves every byte of the live pages
\* as it was before Enable(A).
C5_RoundTripRestores ==
  \A cr3 \in Cr3s : \A u \in RoundTrip(St, cr3) :
    (halted = "no" /\ u.halted = "no") => LiveMemory(u) = LiveMemory(St)

\* C5 amended: it does so when every patch of A lies within its page and the
\* shadow page holds, at each patch of A, the live page's bytes before Enable(A).
C5_RoundTripWhenShadowAgrees ==
  \A cr3 \in Cr3s :
    (halted = "no" /\ ShadowAgrees(St, cr3))
      => \A u \in RoundTrip(St, cr3) :
           u.halted = "no" /\ LiveMemory(u) = LiveMemory(St)

\* C5 witness: a disabled entry of a process whose patch is on the live page
\* and in the shadow page, at a non-zero offset of a shadow page whose first
\* byte differs from the patch, and whose original bytes differ from the patch, so
\* that Enable changes the live page and Disable has to bring the patch back.
C5_Witness ==
  \E cr3 \in Cr3s : \E a \in OwnedBy(St, cr3) :
    /\ halted = "no"
    /\ ShadowAgrees(St, cr3)
    /\ a \notin shadowing
    /\ BYTE_OFFSET(heap[a].patch_address) > 0
    /\ mem[ShadowOf(heap[a])][0] # mem[ShadowOf(heap[a])][BYTE_OFFSET(heap[a].patch_address)]
    /\ FpVmCallEnableFakePages(St, cr3).mem # mem
    /\ \E u \in RoundTrip(St, cr3) : LiveMemory(u) = LiveMemory(St)

\* ------------------------------------------------------------------ C6
\* C6: two entries of one process on one page at non-overlapping offsets share
\* one shadow page, and while both are registered and shadowed that page holds
\* the patched bytes of both at their offsets.
C6_SharedViewHoldsBothPatches ==
  \A a, b \in Live(St) \cap shadowing :
    (/\ a # b
     /\ heap[a].target_cr3 = heap[b].target_cr3
     /\ PAGE_ALIGN(heap[a].patch_address) = PAGE_ALIGN(heap[b].patch_address)
     /\ PatchInPage(heap[a]) /\ PatchInPage(heap[b])
     /\ PatchOffsets(heap[a]) \cap PatchOffsets(heap[b]) = {})
    => /\ heap[a].shadow_page_base_for_exec = heap[b].shadow_page_base_for_exec
       /\ \A i \in 1..PatchLen :
            mem[ShadowOf(heap[a])][BYTE_OFFSET(heap[a].patch_address) + i - 1]
              = patched_bytes[a][i]

\* ------------------------------------------------------------------ C7
\* the virtual addresses of process cr3 inside the page of entry fp
VasOfPage(fp) == {va \in MappedVas(fp.target_cr3) :
                    PAGE_ALIGN(va) = PAGE_ALIGN(fp.patch_address)}
\* the physical addresses inside the original page of entry fp
PasOfPage(fp) == {pa \in 0..(PageSize * (2 + MaxEntries + 1)) :
                    UtilPfnFromPa(pa) = PageOf(fp)}
\* the first registered entry whose original page is that of fp
FirstOnPage(s, fp) ==
  FindFirst(s, LAMBDA x : PageOf(x) = PageOf(fp))

\* the registered entries have pairwise distinct (process, virtual page)
DistinctPages(s) ==
  \A a, b \in Live(s) :
    (/\ s.heap[a].target_cr3 = s.heap[b].target_cr3
     /\ PAGE_ALIGN(s.heap[a].patch_address) = PAGE_ALIGN(s.heap[b].patch_address))
    => a = b

\* C7 as claimed: a registered entry is found by a virtual lookup for any
\* address of its page in its process and by a physical lookup for any address
\* of its original page; after Delete of its process both lookups find nothing.
C7_LookupsFindTheEntry ==
  \A a \in Live(St) :
    LET fp == heap[a]
        t  == FpVmCallDeleteFakePages(St, fp.target_cr3)
    IN (/\ halted = "no"
        /\ DistinctPages(St))
       => /\ \A va \in VasOfPage(fp) :
               /\ FppFindFakePageDataByPage(St, fp.target_cr3, va) = a
               /\ FppFindFakePageDataByPage(t, fp.target_cr3, va) = NullPtr
          /\ \A pa \in PasOfPage(fp) :
               /\ FppFindFakePageDataByPPage(St, pa) = a
               /\ FppFindFakePageDataByPPage(t, pa) = NullPtr

\* C7 amended: the virtual lookup behaves as claimed; the physical lookup finds
\* the first registered entry whose original page is that page, which is the
\* entry itself when no entry of another process on the same physical page was
\* registered before it, and after Delete it finds the first such entry of the
\* remaining processes, nothing when there is none.
C7_LookupsFindFirstOnPage ==
  \A a \in Live(St) :
    LET fp == heap[a]
        t  == FpVmCallDeleteFakePages(St, fp.target_cr3)
    IN (/\ halted = "no"
        /\ DistinctPages(St))
       => /\ \A va \in VasOfPage(fp) :
               /\ FppFindFakePageDataByPage(St, fp.target_cr3, va) = a
               /\ FppFindFakePageDataByPage(t, fp.target_cr3, va) = NullPtr
          /\ \A pa \in PasOfPage(fp) :
               /\ FppFindFakePageDataByPPage(St, pa) = FirstOnPage(St, fp)
               /\ (\A b \in Live(St) : PageOf(heap[b]) = PageOf(fp)
                                        => heap[b].target_cr3 = fp.target_cr3)
                    => /\ FirstOnPage(St, fp) = a
                       /\ FppFindFakePageDataByPPage(t, pa) = NullPtr
               /\ FppFindFakePageDataByPPage(t, pa) = FirstOnPage(t, fp)
               /\ FppFindFakePageDataByPPage(t, pa) \notin OwnedBy(St, fp.target_cr3)

\* C7 witness: after a Delete, the entry of another process on the physical
\* page of a deleted entry is what the physical lookup finds, while the virtual
\* lookup for the deleted entry finds nothing.
C7_Witness ==
  /\ halted = "no"
  /\ DistinctPages(St)
  /\ \E a \in Allocated(St) \ Live(St) : \E b \in Live(St) :
       /\ PageOf(heap[a]) = PageOf(heap[b])
       /\ heap[a].target_cr3 # heap[b].target_cr3
       /\ FppFindFakePageDataByPPage(St, heap[a].pa_base_for_rw) = b
       /\ FppFindFakePageDataByPage(St, heap[a].target_cr3, heap[a].patch_address)
            = NullPtr

\* ------------------------------------------------------------------ C8
\* what an operation leaves behind, the registry apart
Effects(s) == [ept |-> s.ept, mem |-> s.mem, last_fp_data |-> s.last_fp_data,
               mtf |-> s.mtf, halted |-> s.halted]
\* Delete(A) keeps every entry of the other processes, in order and untouched,
\* and leaves memory and the translation entries alone
DeleteKeepsOthers(s, A) ==
  LET t == FpVmCallDeleteFakePages(s, A)
  IN /\ t.all_fp_data
          = SelectSeq(s.all_fp_data, LAMBDA a : s.heap[a].target_cr3 # A)
     /\ t.heap = s.heap
     /\ Effects(t) = Effects(s)
\* Enable(B) and Disable(B) give the same results with and without Delete(A)
SameSwitching(s, A, B) ==
  LET t == FpVmCallDeleteFakePages(s, A)
  IN /\ Effects(FpVmCallEnableFakePages(t, B)) = Effects(FpVmCallEnableFakePages(s, B))
     /\ {Effects(u) : u \in FpVmCallDisableFakePages(t, B)}
          = {Effects(u) : u \in FpVmCallDisableFakePages(s, B)}
\* violation handling at fault_pa gives the same results with and without Delete(A)
SameHandling(s, A, fault_pa) ==
  LET t == FpVmCallDeleteFakePages(s, A)
  IN \A core \in Cores : \A q \in ExitQualifications(s, fault_pa) :
       {Effects(u) : u \in FpHandleEptViolation(t, core, fault_pa, q)}
         = {Effects(u) : u \in FpHandleEptViolation(s, core, fault_pa, q)}
\* the guest pages on which process B has a registered entry
PagesOf(s, B) == {PageOf(s.heap[b]) : b \in OwnedBy(s, B)}

\* C8 as claimed: Delete(A) removes exactly the entries of A, leaves the
\* entries of every other process B, memory and the translation entries
\* unchanged, and Enable(B), Disable(B) and violation handling on the pages of
\* B give the same results as without it.
C8_DeleteLeavesOthersAlone ==
  \A A \in Cr3s : \A B \in Cr3s \ {A} :
    halted = "no"
      => /\ DeleteKeepsOthers(St, A)
         /\ SameSwitching(St, A, B)
         /\ \A fault_pa \in FaultPas :
              UtilPfnFromPa(fault_pa) \in PagesOf(St, B)
                => SameHandling(St, A, fault_pa)

\* C8 amended: as claimed, the violation handling being the same on the pages
\* of B that are not also the original page of an entry of A.
C8_DeleteLeavesUnaliasedOthersAlone ==
  \A A \in Cr3s : \A B \in Cr3s \ {A} :
    halted = "no"
      => /\ DeleteKeepsOthers(St, A)
         /\ SameSwitching(St, A, B)
         /\ \A fault_pa \in FaultPas :
              UtilPfnFromPa(fault_pa) \in PagesOf(St, B) \ PagesOf(St, A)
                => SameHandling(St, A, fault_pa)

\* C8 witness: after Delete(A) removed an entry of A, a shadowed entry of B is
\* registered on a page that A has not patched.
C8_Witness ==
  /\ halted = "no"
  /\ \E a \in Allocated(St) \ Live(St) : \E b \in Live(St) \cap shadowing :
       /\ heap[a].target_cr3 # heap[b].target_cr3
       /\ PageOf(heap[a]) # PageOf(heap[b])
       /\ ~IsExecuteOnly(ept[PageOf(heap[b])])

\* ------------------------------------------------------------------ C9
\* C9: after Enable(A) every page holding an entry of A is ExecuteOnly (read
\* and write denied, execute granted, backed by the entry's shadow page), and
\* the translation entries of the pages A has no entry on are unchanged.
C9_EnableGivesExecuteOnly ==
  \A A \in Cr3s :
    LET t == FpVmCallEnableFakePages(St, A)
    IN (halted = "no" /\ t.halted = "no")
         => /\ \A a \in OwnedBy(St, A) :
                 /\ IsExecuteOnly(t.ept[PageOf(heap[a])])
                 /\ t.ept[PageOf(heap[a])].physial_address = ShadowOf(heap[a])
            /\ \A p \in GuestPfns \ PagesOf(St, A) : t.ept[p] = ept[p]

\* ------------------------------------------------------------------ C10
\* C10: after Disable(A) every page holding an entry of A is Direct: read,
\* write and execute granted, backed by the original page.
C10_DisableGivesDirect ==
  \A A \in Cr3s : \A t \in FpVmCallDisableFakePages(St, A) :
    (halted = "no" /\ t.halted = "no")
      => \A a \in OwnedBy(St, A) :
           t.ept[PageOf(heap[a])] = DirectEntry(PageOf(heap[a]))

\* ------------------------------------------------------------------ C11
\* C11: when Delete(A) is called with every entry of A disabled (Disable(A)
\* was the last switch of A), no page A had patched is left backed by a shadow
\* page or with read or write denied.  Stated for the pages only A has ever
\* patched and on which no entry was deleted before.
C11_NoDanglingAfterDisableDelete ==
  \A A \in Cr3s :
    LET t == FpVmCallDeleteFakePages(St, A)
    IN (halted = "no" /\ OwnedBy(St, A) \cap shadowing = {})
         => \A a \in OwnedBy(St, A) :
              LET p == PageOf(heap[a])
              IN (\A b \in Allocated(St) :
                    PageOf(heap[b]) = p => b \in Live(St) /\ heap[b].target_cr3 = A)
                 => /\ t.ept[p].physial_address = p
                    /\ t.ept[p].read_access
                    /\ t.ept[p].write_access

\* ------------------------------------------------------------------ C12
\* every choice of the attempted-access bits and of bit 8, denied or not (a
\* fault on a cached translation the entry no longer agrees with)
AnyQualification(s, fault_pa) ==
  LET e == s.ept[UtilPfnFromPa(fault_pa)]
  IN [read_access : BOOLEAN, write_access : BOOLEAN, execute_access : BOOLEAN,
      ept_readable : {e.read_access}, ept_writeable : {e.write_access},
      ept_executable : {e.execute_access}, caused_by_translation : BOOLEAN]

\* C12: called while the engine is inactive, or for a physical address on
\* whose page no entry is registered, the dispatcher changes nothing.
C12_LookupMissChangesNothing ==
  \A shared_fp_data \in SharedDataPtrs : \A core \in Cores :
    \A fault_pa \in FaultPas :
      (/\ halted = "no"
       /\ \/ shared_fp_data = NullPtr
          \/ EntriesOn(St, UtilPfnFromPa(fault_pa)) = {})
      => \A q \in AnyQualification(St, fault_pa) :
           FpHandleEptViolationOn(shared_fp_data, St, core, fault_pa, q) = {St}

\* C12 witness: entries are registered, and a page without an entry has read
\* denied (left so by a Delete), so that a guest access to it faults.
C12_Witness ==
  /\ halted = "no"
  /\ Live(St) # {}
  /\ \E p \in GuestPfns : EntriesOn(St, p) = {} /\ ~ept[p].read_access

\* ------------------------------------------------------------------ C13
\* the leaves the claim calls captured on processor h
CapturedLeaves(h) == (0..h.max_std) \cup (ExtendedBase..h.max_ext)

\* C13: once the cache is filled, the lookup of a captured leaf returns the
\* registers of that leaf (of that sub-leaf for leaf 4, sub-leaves 1..3, and of
\* sub-leaf 0 for every other leaf whatever sub-leaf is asked), and the lookup
\* of a leaf that was not captured returns NULL.
C13_LookupReturnsCaptured ==
  (halted = "no" /\ cpuinfo # <<>>)
    => \A leaf \in LookupLeaves : \A subfun \in LookupSubLeaves :
         LET got == FpHandleCpuid(cpuinfo, leaf, subfun)
         IN /\ (leaf = TopologyLeaf /\ subfun \in 1..3)
                 => got = Cpuid(host, leaf, subfun)
            /\ (leaf # TopologyLeaf /\ leaf \in CapturedLeaves(host))
                 => got = Cpuid(host, leaf, 0)
            /\ (leaf # TopologyLeaf /\ leaf \notin CapturedLeaves(host))
                 => got = NoCpui

\* ------------------------------------------------------------------ C14
\* a permission fault with a denied read or write on an ExecuteOnly page of a
\* shadowed entry, which the dispatcher finds
LeavesExecuteOnly(s, fault_pa, q) ==
  LET a == FppFindFakePageDataByPPage(s, fault_pa)
  IN /\ s.halted = "no"
     /\ a \in s.shadowing
     /\ IsExecuteOnly(s.ept[PageOf(s.heap[a])])
     /\ q.caused_by_translation
     /\ ShowsOriginalPage(q)

C15_TrapRestoresExecuteOnly ==
  \A core \in Cores :
    (halted = "no" /\ mtf[core] /\ last_fp_data[core] \in Live(St))
      => \A t \in FpHandleMonitorTrapFlag(St, core) :
           LET a == last_fp_data[core]
               e == t.ept[PageOf(heap[a])]
           IN t.halted = "no"
                => /\ t.last_fp_data[core] = NullPtr
                   /\ ~t.mtf[core]
                   /\ IsExecuteOnly(e)
                   /\ e.physial_address = ShadowOf(heap[a])

\* ------------------------------------------------------------------ C16
\* C16: the dispatcher never fills the slot of a core whose slot is already
\* filled: with an entry pending on the core, every outcome of a violation
\* handled there leaves that entry pending and the assertion unfailed.
C16_NoSecondArming ==
  \A core \in Cores : \A fault_pa \in FaultPas : \A q \in ExitQualifications(St, fault_pa) :
    (halted = "no" /\ last_fp_data[core] # NullPtr)
      => \A t \in FpHandleEptViolation(St, core, fault_pa, q) :
           /\ t.halted # "assert"
           /\ t.last_fp_data[core] = last_fp_data[core]

\* ------------------------------------------------------------------ C17
\* the handler outcome t has every EPT entry write followed by a global INVEPT
Invalidated(t) == t.uninvalidated = {}
\* Enable, Disable and the monitor trap handler invalidate after their writes
CallsInvalidate ==
  /\ \A cr3 \in Cr3s : Invalidated(FpVmCallEnableFakePages(St, cr3))
  /\ \A cr3 \in Cr3s : \A t \in FpVmCallDisableFakePages(St, cr3) : Invalidated(t)
  /\ \A core \in Cores : mtf[core] => \A t \in FpHandleMonitorTrapFlag(St, core) : Invalidated(t)
\* the dispatcher invalidates after its writes, in the branch of a fault not
\* caused by translation and in the two branches of one that is
DispatcherInvalidates ==
  \A core \in Cores : \A fault_pa \in FaultPas : \A q \in ExitQualifications(St, fault_pa) :
    \A t \in FpHandleEptViolation(St, core, fault_pa, q) : Invalidated(t)

\* C17: every operation that changes the translation entry of a shadowed page
\* (Enable, Disable, each branch of the dispatcher, the monitor trap handler)
\* performs a global invalidation after the change.
C17_EveryChangeInvalidated ==
  halted = "no" => CallsInvalidate /\ DispatcherInvalidates

\* ------------------------------------------------------------------ C18
\* a permission fault (bit 8 set) on a registered page
PermissionFault(s, fault_pa, q) ==
  /\ s.halted = "no"
  /\ FppFindFakePageDataByPPage(s, fault_pa) # NullPtr
  /\ q.caused_by_translation

\* C18 as claimed: the dispatcher writes read = previously granted read or
\* attempted read, write = previously granted write or attempted write,
\* execute = attempted execute.
C18_GrantsUnionWithPrevious ==
  \A core \in Cores : \A fault_pa \in FaultPas : \A q \in ExitQualifications(St, fault_pa) :
    PermissionFault(St, fault_pa, q)
      => \A t \in FpHandleEptViolation(St, core, fault_pa, q) :
           LET p == UtilPfnFromPa(fault_pa)
           IN t.halted = "no"
                => /\ t.ept[p].read_access = (ept[p].read_access \/ q.read_access)
                   /\ t.ept[p].write_access = (ept[p].write_access \/ q.write_access)
                   /\ t.ept[p].execute_access = q.execute_access

\* C18 amended: the dispatcher writes read = attempted read or attempted
\* write, write = attempted write, execute = attempted execute; the bits the
\* entry had do not enter.
C18_GrantsFromAttemptedOnly ==
  \A core \in Cores : \A fault_pa \in FaultPas : \A q \in ExitQualifications(St, fault_pa) :
    PermissionFault(St, fault_pa, q)
      => \A t \in FpHandleEptViolation(St, core, fault_pa, q) :
           LET p == UtilPfnFromPa(fault_pa)
           IN t.halted = "no"
                => /\ t.ept[p].read_access = (q.read_access \/ q.write_access)
                   /\ t.ept[p].write_access = q.write_access
                   /\ t.ept[p].execute_access = q.execute_access

\* C18 witness: the page of a shadowed entry after a write fault: read and
\* write granted, execute denied, over the original page.
C18_Witness ==
  \E a \in Live(St) \cap shadowing :
    LET e == ept[PageOf(heap[a])]
    IN /\ halted = "no"
       /\ e.read_access /\ e.write_access /\ ~e.execute_access
       /\ e.physial_address = PageOf(heap[a])

\* ------------------------------------------------------------------ C19
\* C19: when the dispatcher resynchronises (a permission fault with no denied
\* read or write), whatever the patch offset in the page, it returns, and the
\* shadow page then holds the live bytes of the original page outside the
\* entry's patched range and its former bytes inside it.
C19_ResyncCopiesOutsidePatch ==
  \A core \in Cores : \A fault_pa \in FaultPas : \A q \in ExitQualifications(St, fault_pa) :
    (PermissionFault(St, fault_pa, q) /\ ~ShowsOriginalPage(q))
      => \A t \in FpHandleEptViolation(St, core, fault_pa, q) :
           LET fp == heap[FppFindFakePageDataByPPage(St, fault_pa)]
               sh == fp.shadow_page_base_for_exec
               first == BYTE_OFFSET(fp.patch_address)
           IN /\ t.halted # "fault"
              /\ t.halted = "no"
                   => \A o \in Offsets :
                        t.mem[sh][o] =
                          IF o >= first /\ o < first + PatchLen
                            THEN mem[sh][o]
                            ELSE ReadVa(mem, fp.target_cr3,
                                        PAGE_ALIGN(fp.patch_address) + o)

\* ------------------------------------------------------------------ C20
\* the handler outcome t, if the handler returned, has the CR3 and the CR0.WP
\* the handler was entered with
Restored(t) == t.halted = "no" => t.cr3 = St.cr3 /\ t.cr0_wp = St.cr0_wp

\* C20: Create, Enable, Disable, the dispatcher when it resynchronises and the
\* monitor trap handler return with CR3 and CR0.WP equal to their values at entry, on every path
\* that returns.
C20_PagingContextRestored ==
  halted = "no"
    => /\ \A site \in PatchSites : \A ob \in {MarkBytes} :
            \A t \in FpVmCallCreateFakePage(St, site[1], site[2], ob) :
              NewFakePageData(St) <= MaxEntries => Restored(t)
       /\ \A cr3 \in Cr3s : Restored(FpVmCallEnableFakePages(St, cr3))
       /\ \A cr3 \in Cr3s : \A t \in FpVmCallDisableFakePages(St, cr3) : Restored(t)
       /\ \A core \in Cores : \A fault_pa \in FaultPas :
            \A q \in ExitQualifications(St, fault_pa) :
              (PermissionFault(St, fault_pa, q) /\ ~ShowsOriginalPage(q))
                => \A t \in FpHandleEptViolation(St, core, fault_pa, q) : Restored(t)
       /\ \A core \in Cores :
            last_fp_data[core] # NullPtr
              => \A t \in FpHandleMonitorTrapFlag(St, core) : Restored(t)

\* C20 witness: Create, Enable, the dispatcher and Disable have run for a
\* registered entry: it is no longer shadowed and its page is on the original
\* frame, readable and writable, with the execute denial the dispatcher left.
C20_Witness ==
  \E b \in Live(St) \ shadowing :
    LET e == ept[PageOf(heap[b])]
    IN /\ halted = "no"
       /\ EntriesOn(St, PageOf(heap[b])) \cap shadowing = {}
       /\ e.physial_address = PageOf(heap[b])
       /\ e.read_access /\ e.write_access /\ ~e.execute_access

\* ------------------------------------------------------------------ C21
\* C21: in every reachable state, the entry a core's pending slot points to
\* is in the registry: no Delete has destroyed it (and released its shadow
\* page) while the slot still holds its address.
C21_PendingEntryRegistered ==
  halted = "no"
    => \A core \in Cores :
         last_fp_data[core] # NullPtr => last_fp_data[core] \in Live(St)

\* ------------------------------------------------------------------ C22
\* A guest instruction of process InsnCr3 at InsnVa that reads or writes a byte
\* of the page it is fetched from.  The processor fetches it, then makes the
\* data access; an access the EPT entry denies is an EPT violation whose
\* qualification reports that access (bit 8 set), the dispatcher handles it and
\* the core runs the instruction again.
InsnCr3 == Min(Cr3s)
InsnVa == PageSize
InsnPa == UtilPaFromVa(InsnCr3, InsnVa)
InsnAccesses == {"read", "write"}

\* the exit qualification of a violation by the one access reported
AccessQualification(s, fault_pa, access) ==
  LET e == s.ept[UtilPfnFromPa(fault_pa)]
  IN [read_access |-> access = "read", write_access |-> access = "write",
      execute_access |-> access = "fetch",
      ept_readable |-> e.read_access, ept_writeable |-> e.write_access,
      ept_executable |-> e.execute_access, caused_by_translation |-> TRUE]

\* the access of the instruction the entry of its page denies first, or "none"
DeniedAccess(s, access) ==
  LET e == s.ept[UtilPfnFromPa(InsnPa)]
  IN IF ~e.execute_access THEN "fetch"
     ELSE IF access = "read" /\ ~e.read_access THEN "read"
     ELSE IF access = "write" /\ ~e.write_access THEN "write"
     ELSE "none"

\* the guest reaches the instruction
GuestStart(access) ==
  /\ Running
  /\ insn = "none"
  /\ insn' = access
  /\ UNCHANGED <<heap, all_fp_data, mem, ept, last_fp_data, mtf, halted, shadowing,
                 patched_bytes, writes, host, cpuinfo, cpuid_found>>

\* one attempt of the core to execute the instruction: a violation handled by
\* the dispatcher, or the instruction completes
GuestExecute(core) ==
  /\ Running
  /\ insn \in InsnAccesses
  /\ LET denied == DeniedAccess(St, insn)
     IN IF denied # "none"
          THEN /\ \E t \in FpHandleEptViolation(
                             St, core, InsnPa, AccessQualification(St, InsnPa, denied)) :
                    InstallState(t)
               /\ UNCHANGED insn
          ELSE /\ InstallState(IF insn = "write"
                                 THEN GuestStore(St, InsnCr3, InsnVa, MaxByte) ELSE St)
               /\ insn' = "retired"
  /\ UNCHANGED writes

\* Patches of the instruction's page, inside the page
ProgressSites == {<<InsnCr3, InsnVa>>, <<InsnCr3, InsnVa + PatchLen>>}

\* The hypercalls and violations before the guest reaches the instruction,
\* then the core executing it.
NextProgress ==
  \/ insn = "none" /\ NextOver(ProgressSites, {MarkBytes}, {1}, StoreSites)
  \/ \E access \in InsnAccesses : GuestStart(access)
  \/ GuestExecute(1)

\* After VM entry the core runs the faulting instruction again.
SpecProgress == Init /\ [][NextProgress]_vars /\ WF_vars(GuestExecute(1))

\* the guest is at the instruction, its page is shadowed by an enabled entry,
\* and no core has a single step pending
AtShadowedInstruction ==
  /\ halted = "no"
  /\ insn \in InsnAccesses
  /\ EntriesOn(St, UtilPfnFromPa(InsnPa)) \cap shadowing # {}
  /\ \A c \in Cores : ~mtf[c] /\ last_fp_data[c] = NullPtr

\* C22: a guest instruction fetched from an enabled shadowed page that reads
\* or writes that page eventually retires (or the machine stops): the
\* dispatcher does not alternate for ever between execute over the shadow page
\* and read/write over the original page.
C22_InstructionRetires ==
  AtShadowedInstruction ~> (insn = "retired" \/ halted # "no")
====
